---- MODULE Spec2Model ----
(***************************************************************************)
(* Manifest store of web2epub (backend/storage.py): a JSON manifest        *)
(* (articles.json), its temporary sibling (articles.tmp) and the PDF blobs *)
(* under pdfs/, accessed by request contexts that share the data           *)
(* directory.  Every step of the model is one system call of the code (or  *)
(* the local computation between two of them).                             *)
(*                                                                         *)
(* Files are inodes: a path names an inode, an open file keeps its inode   *)
(* whatever the path is renamed to, and flock() locks belong to the inode. *)
(* A manifest is a sequence of tokens: "[", one token per record, "]".     *)
(* Text written by json.dump stays in the io buffer of the file object     *)
(* until the buffer fills or the file is closed: a prefix of the tokens is *)
(* written while the lock is held, the rest by close(), after the unlock.  *)
(***************************************************************************)
EXTENDS Integers, Sequences, FiniteSets, TLC

\* Number of request contexts sharing the data directory.
NCtx == 2
\* Number of ids uuid4 hands out before the model stops adding.
MaxIds == 3
\* Largest number of records in the store the contexts start on.
InitRecords == 2
\* Calls the concurrent contexts make in all, and calls the single caller
\* makes.
MaxCalls == 3
SeqCalls == 3
\* Calls the contexts make in all where each is scheduled fairly.
LockCalls == 2
\* Containers in the body of a document, and labels before the registered
\* name of a host.
MaxBlocks == 2
MaxLabels == 2

Ctx == 1..NCtx
Ids == 1..MaxIds
\* Two paths and one open file per context can each pin an inode.
Inodes == 1..(NCtx + 2)
NoIno == 0

\* Arguments of add_article: (title, url, domain, pdf_bytes).
Inputs ==
  { [title |-> "Foo", url |-> "https://www.bar.com/x",
     domain |-> "bar.com", pdf_bytes |-> "%PDF-Foo"],
    [title |-> "Untitled", url |-> "http://sub.example.com/a",
     domain |-> "sub.example.com", pdf_bytes |-> "%PDF-Untitled"] }
\* Values of datetime.now().isoformat().
Times == {"2026-11-04T10:00:00"}

\* f"{article_id}.pdf"
Filename(id) == <<id, ".pdf">>
Filenames == {Filename(i) : i \in Ids}
\* PDFS_DIR / filename
PdfPath(filename) == <<"pdfs", filename>>

ENOENT == "ENOENT"
EmptyFile == ""

NoArticle == [none |-> TRUE]
NoResult == [status |-> "none"]
Returned(v) == [status |-> "return", val |-> v]
Raised(e) == [status |-> "raise", val |-> e]
Crashed == [status |-> "crash"]
Untracked == [tracked |-> FALSE]

VARIABLES
  jsonIno,   \* inode named by ARTICLES_FILE, NoIno when the path does not exist
  tmpIno,    \* inode named by articles.tmp, NoIno when the path does not exist
  data,      \* inode -> content (sequence of tokens)
  lock,      \* inode -> context holding its flock, 0 when free
  pdfs,      \* filename -> content of PDFS_DIR/filename, ENOENT when absent
  nextId,    \* next id uuid4 returns
  pc,        \* context -> position in the code
  op,        \* context -> storage function the context is running
  arg,       \* context -> its argument (an input of add_article, or an id)
  article,   \* context -> local `article`
  articles,  \* context -> local `articles`
  fd,        \* context -> inode of the file object `f`, NoIno when closed
  exists,    \* context -> what ARTICLES_FILE.exists() answered
  content,   \* context -> local `content` of load_articles
  flushed,   \* context -> number of tokens of json.dump already written
  result,    \* context -> outcome of the last finished call
  calls,     \* number of calls begun so far
  pre        \* the store when the single caller's current call began

fsVars == <<jsonIno, tmpIno, data, lock, pdfs>>
vars == <<jsonIno, tmpIno, data, lock, pdfs, nextId, pc, op, arg, article,
          articles, fd, exists, content, flushed, result, calls, pre>>

----------------------------------------------------------------------------
\* JSON text of the manifest

TokOpen == [t |-> "["]
TokClose == [t |-> "]"]
TokNul == [t |-> "NUL"]
TokObj(a) == [t |-> "{}", v |-> a]

\* The dump that writes the records last to first.
SerializeReversed(coll) ==
  <<TokOpen>>
    \o [i \in 1..Len(coll) |-> TokObj(coll[Len(coll) + 1 - i])]
    \o <<TokClose>>

\* json.dump(articles, f, indent=2)
Serialize(coll) ==
  <<TokOpen>> \o [i \in 1..Len(coll) |-> TokObj(coll[i])] \o <<TokClose>>

\* Whether json.loads accepts the text.
WellFormed(text) ==
  /\ Len(text) >= 2
  /\ text[1].t = "["
  /\ text[Len(text)].t = "]"
  /\ \A i \in 2..(Len(text) - 1) : text[i].t = "{}"

\* json.loads(content), for a text it accepts.
JsonLoads(text) == [i \in 1..(Len(text) - 2) |-> text[i + 1].v]

\* write(2) of toks at file offset off: bytes past the end of the file up to
\* the offset read as NUL.
WriteAt(old, off, toks) ==
  IF toks = <<>> THEN old
  ELSE LET n == IF Len(old) > off + Len(toks) THEN Len(old) ELSE off + Len(toks)
       IN [i \in 1..n |->
             IF i > off /\ i <= off + Len(toks) THEN toks[i - off]
             ELSE IF i <= Len(old) THEN old[i] ELSE TokNul]

----------------------------------------------------------------------------
\* The file system

\* Whether something still refers to inode i: a path, or an open file.
Referenced(i, j, t, fds) == i = j \/ i = t \/ \E c \in Ctx : fds[c] = i

\* The kernel frees an inode nothing refers to; its content is gone.
Sweep(d, j, t, fds) ==
  [i \in Inodes |-> IF Referenced(i, j, t, fds) THEN d[i] ELSE <<>>]

\* The inode a newly created file gets.
FreshIno ==
  CHOOSE i \in Inodes :
    /\ ~Referenced(i, jsonIno, tmpIno, fd)
    /\ \A k \in Inodes : ~Referenced(k, jsonIno, tmpIno, fd) => i <= k

\* Content of articles.json as a reader opening it now would read it.
ManifestText == IF jsonIno = NoIno THEN <<>> ELSE data[jsonIno]

\* The records of the manifest on disk (none while it is not parseable).
ManifestRecords ==
  IF ManifestText = <<>> \/ ~WellFormed(ManifestText) THEN <<>>
  ELSE JsonLoads(ManifestText)

RecordIds(coll) == {coll[i].id : i \in 1..Len(coll)}

\* The lookup without its condition: the first record, whatever its id.
FindArticleAny(coll, id) == IF coll = <<>> THEN NoArticle ELSE coll[1]

\* next((a for a in articles if a["id"] == article_id), None)
FindArticle(coll, id) ==
  IF \E i \in 1..Len(coll) : coll[i].id = id
  THEN coll[CHOOSE i \in 1..Len(coll) :
              /\ coll[i].id = id
              /\ \A k \in 1..(i - 1) : coll[k].id # id]
  ELSE NoArticle

\* The filter that keeps every record.
WithoutIdKeepsAll(coll, id) == coll

\* [a for a in articles if a["id"] != article_id]
RECURSIVE WithoutId(_, _)
WithoutId(coll, id) ==
  IF coll = <<>> THEN <<>>
  ELSE IF Head(coll).id = id THEN WithoutId(Tail(coll), id)
       ELSE <<Head(coll)>> \o WithoutId(Tail(coll), id)

\* get_pdf_path, from what get_article returned.
GetPdfPath(found) ==
  IF found = NoArticle THEN NoArticle ELSE PdfPath(found.filename)

\* Content of articles.tmp.
TmpText == IF tmpIno = NoIno THEN <<>> ELSE data[tmpIno]

\* The files of the data directory: which file each path names, and what
\* each holds.
FileView == <<jsonIno, ManifestText, tmpIno, TmpText, pdfs>>

\* The store as the single caller finds it when a call begins, with the
\* previous call and its outcome.
Snapshot(c) ==
  [tracked |-> TRUE, op |-> op[c], arg |-> arg[c], result |-> result[c],
   records |-> ManifestRecords, files |-> FileView]

----------------------------------------------------------------------------
\* The record with url and domain taken from each other's argument.
MakeArticleSwapped(id, inp, now) ==
  [id |-> id, title |-> inp.title, url |-> inp.domain, domain |-> inp.url,
   saved_at |-> now, filename |-> Filename(id)]

\* The record add_article builds.
MakeArticle(id, inp, now) ==
  [id |-> id, title |-> inp.title, url |-> inp.url, domain |-> inp.domain,
   saved_at |-> now, filename |-> Filename(id)]

\* The input the concurrent contexts submit, and the time of the records
\* the store starts with.
FirstInput == CHOOSE inp \in Inputs : inp.title = "Foo"
FirstTime == CHOOSE now \in Times : TRUE

\* The store after n add_article calls made one after the other on an empty
\* data directory (none: articles.json does not exist yet).
InitStore(n) ==
  /\ jsonIno = IF n = 0 THEN NoIno ELSE 1
  /\ tmpIno = NoIno
  /\ data = [i \in Inodes |->
              IF n > 0 /\ i = 1
              THEN Serialize([k \in 1..n |-> MakeArticle(k, FirstInput, FirstTime)])
              ELSE <<>>]
  /\ lock = [i \in Inodes |-> 0]
  /\ pdfs = [f \in Filenames |->
              IF \E k \in 1..n : f = Filename(k)
              THEN FirstInput.pdf_bytes ELSE ENOENT]
  /\ nextId = n + 1

InitCtx ==
  /\ pc = [c \in Ctx |-> "idle"]
  /\ op = [c \in Ctx |-> "none"]
  /\ arg = [c \in Ctx |-> 0]
  /\ article = [c \in Ctx |-> NoArticle]
  /\ articles = [c \in Ctx |-> <<>>]
  /\ fd = [c \in Ctx |-> NoIno]
  /\ exists = [c \in Ctx |-> FALSE]
  /\ content = [c \in Ctx |-> <<>>]
  /\ flushed = [c \in Ctx |-> 0]
  /\ result = [c \in Ctx |-> NoResult]
  /\ calls = 0

\* Whether this is the run of a single caller, whose calls are tracked.
SingleCaller == pre.tracked

Init ==
  /\ \E n \in 0..InitRecords : InitStore(n)
  /\ InitCtx
  /\ pre = Untracked

\* A call begins: the locals are fresh.
Enter(c, o, a, art, p) ==
  /\ pc[c] = "idle"
  /\ calls < (IF SingleCaller THEN SeqCalls ELSE MaxCalls)
  /\ calls' = calls + 1
  /\ pc' = [pc EXCEPT ![c] = p]
  /\ op' = [op EXCEPT ![c] = o]
  /\ arg' = [arg EXCEPT ![c] = a]
  /\ article' = [article EXCEPT ![c] = art]
  /\ articles' = [articles EXCEPT ![c] = <<>>]
  /\ exists' = [exists EXCEPT ![c] = FALSE]
  /\ content' = [content EXCEPT ![c] = <<>>]
  /\ flushed' = [flushed EXCEPT ![c] = 0]
  /\ result' = [result EXCEPT ![c] = NoResult]
  /\ pre' = IF pre.tracked THEN Snapshot(c) ELSE pre
  /\ UNCHANGED <<fsVars, fd>>

\* A call returns v.
Return(c, v) ==
  /\ pc' = [pc EXCEPT ![c] = "idle"]
  /\ result' = [result EXCEPT ![c] = Returned(v)]
  /\ article' = [article EXCEPT ![c] = NoArticle]
  /\ articles' = [articles EXCEPT ![c] = <<>>]
  /\ exists' = [exists EXCEPT ![c] = FALSE]
  /\ content' = [content EXCEPT ![c] = <<>>]
  /\ flushed' = [flushed EXCEPT ![c] = 0]

\* A call ends with exception e; the frame that raised keeps its locals.
Raise(c, e) ==
  /\ pc' = [pc EXCEPT ![c] = "idle"]
  /\ result' = [result EXCEPT ![c] = Raised(e)]
  /\ UNCHANGED <<article, articles, exists, content, flushed>>

\* Where the caller of load_articles goes on with the list it returned.
AfterLoadPc(o) ==
  CASE o = "add" \/ o = "create" -> "add_append"
    [] o = "delete" -> "del_find"
    [] o = "resave" -> "save_open"
    [] OTHER -> "get_find"

----------------------------------------------------------------------------
\* add_article, up to its call of load_articles

\* add_article is called: uuid4 returns a new id.
AddArticle(c) ==
  \E inp \in (IF SingleCaller THEN Inputs ELSE {FirstInput}), now \in Times :
    /\ nextId <= MaxIds
    /\ Enter(c, "add", inp, MakeArticle(nextId, inp, now), "add_open")
    /\ nextId' = nextId + 1

\* open(pdf_path, "wb"): the blob exists, empty.
AddOpenPdf(c) ==
  /\ pc[c] = "add_open"
  /\ pdfs' = [pdfs EXCEPT ![article[c].filename] = EmptyFile]
  /\ pc' = [pc EXCEPT ![c] = "add_write"]
  /\ UNCHANGED <<jsonIno, tmpIno, data, lock, nextId, op, arg, article,
                 articles, fd, exists, content, flushed, result, calls, pre>>

\* f.write(pdf_bytes) and the close that flushes it.
AddWritePdf(c) ==
  /\ pc[c] = "add_write"
  /\ pdfs' = [pdfs EXCEPT ![article[c].filename] = arg[c].pdf_bytes]
  /\ pc' = [pc EXCEPT ![c] = "load_exists"]
  /\ UNCHANGED <<jsonIno, tmpIno, data, lock, nextId, op, arg, article,
                 articles, fd, exists, content, flushed, result, calls, pre>>

----------------------------------------------------------------------------
\* delete_article and get_article are called

DeleteArticle(c) ==
  \E id \in Ids :
    /\ Enter(c, "delete", id, NoArticle, "load_exists")
    /\ UNCHANGED nextId

GetArticle(c) ==
  \E id \in Ids :
    /\ Enter(c, "get", id, NoArticle, "load_exists")
    /\ UNCHANGED nextId

\* save_articles(load_articles()) is called.
ResaveArticles(c) ==
  /\ Enter(c, "resave", 0, NoArticle, "load_exists")
  /\ UNCHANGED nextId

----------------------------------------------------------------------------
\* load_articles

\* if not ARTICLES_FILE.exists(): return []
LoadExists(c) ==
  /\ pc[c] = "load_exists"
  /\ exists' = [exists EXCEPT ![c] = jsonIno # NoIno]
  /\ pc' = [pc EXCEPT ![c] =
             IF jsonIno = NoIno THEN AfterLoadPc(op[c]) ELSE "load_open"]
  /\ articles' = [articles EXCEPT ![c] = <<>>]
  /\ UNCHANGED <<fsVars, nextId, op, arg, article, fd, content, flushed,
                 result, calls, pre>>

\* open(ARTICLES_FILE, "r"): nothing ever unlinks the path once it exists.
LoadOpen(c) ==
  /\ pc[c] = "load_open"
  /\ fd' = [fd EXCEPT ![c] = jsonIno]
  /\ pc' = [pc EXCEPT ![c] = "load_lock"]
  /\ UNCHANGED <<fsVars, nextId, op, arg, article, articles, exists, content,
                 flushed, result, calls, pre>>

\* _lock_file(f): blocks while another open file holds the inode's lock.
LoadLock(c) ==
  /\ pc[c] = "load_lock"
  /\ lock[fd[c]] = 0
  /\ lock' = [lock EXCEPT ![fd[c]] = c]
  /\ pc' = [pc EXCEPT ![c] = "load_read"]
  /\ UNCHANGED <<jsonIno, tmpIno, data, pdfs, nextId, op, arg, article,
                 articles, fd, exists, content, flushed, result, calls, pre>>

\* content = f.read()
LoadRead(c) ==
  /\ pc[c] = "load_read"
  /\ content' = [content EXCEPT ![c] = data[fd[c]]]
  /\ pc' = [pc EXCEPT ![c] = "load_unlock"]
  /\ UNCHANGED <<fsVars, nextId, op, arg, article, articles, fd, exists,
                 flushed, result, calls, pre>>

\* What load_articles does with the content it read: the empty list for an
\* empty content, json.loads otherwise, which raises on a text that is no
\* JSON document.
LoadResult(text) ==
  IF text = <<>> THEN Returned(<<>>)
  ELSE IF WellFormed(text) THEN Returned(JsonLoads(text))
  ELSE Raised("JSONDecodeError")

\* _unlock_file(f), then the content is parsed; the file is closed as the
\* with block is left.
LoadUnlock(c) ==
  /\ pc[c] = "load_unlock"
  /\ lock' = [lock EXCEPT ![fd[c]] = 0]
  /\ fd' = [fd EXCEPT ![c] = NoIno]
  /\ data' = Sweep(data, jsonIno, tmpIno, fd')
  /\ IF LoadResult(content[c]).status = "raise"
     THEN Raise(c, LoadResult(content[c]).val)
     ELSE /\ articles' = [articles EXCEPT ![c] = LoadResult(content[c]).val]
          /\ pc' = [pc EXCEPT ![c] = AfterLoadPc(op[c])]
          /\ UNCHANGED <<article, exists, content, flushed, result>>
  /\ UNCHANGED <<jsonIno, tmpIno, pdfs, nextId, op, arg, calls, pre>>

----------------------------------------------------------------------------
\* save_articles

\* open(temp_file, "w"): creates the file, or truncates the one that is
\* there, before any lock is asked for.
SaveOpen(c) ==
  /\ pc[c] = "save_open"
  /\ LET i == IF tmpIno = NoIno THEN FreshIno ELSE tmpIno
     IN /\ tmpIno' = i
        /\ data' = [data EXCEPT ![i] = <<>>]
        /\ fd' = [fd EXCEPT ![c] = i]
  /\ flushed' = [flushed EXCEPT ![c] = 0]
  /\ pc' = [pc EXCEPT ![c] = "save_lock"]
  /\ UNCHANGED <<jsonIno, lock, pdfs, nextId, op, arg, article, articles,
                 exists, content, result, calls, pre>>

\* _lock_file(f)
SaveLock(c) ==
  /\ pc[c] = "save_lock"
  /\ lock[fd[c]] = 0
  /\ lock' = [lock EXCEPT ![fd[c]] = c]
  /\ pc' = [pc EXCEPT ![c] = "save_dump"]
  /\ UNCHANGED <<jsonIno, tmpIno, data, pdfs, nextId, op, arg, article,
                 articles, fd, exists, content, flushed, result, calls, pre>>

\* json.dump(articles, f, indent=2): the text goes to the buffer of f; the
\* part that overflows the buffer (any prefix) is written to the file.
SaveDump(c) ==
  /\ pc[c] = "save_dump"
  /\ \E k \in 0..Len(Serialize(articles[c])) :
       /\ data' = [data EXCEPT ![fd[c]] =
                     WriteAt(@, 0, SubSeq(Serialize(articles[c]), 1, k))]
       /\ flushed' = [flushed EXCEPT ![c] = k]
  /\ pc' = [pc EXCEPT ![c] = "save_unlock"]
  /\ UNCHANGED <<jsonIno, tmpIno, lock, pdfs, nextId, op, arg, article,
                 articles, fd, exists, content, result, calls, pre>>

\* _unlock_file(f)
SaveUnlock(c) ==
  /\ pc[c] = "save_unlock"
  /\ lock' = [lock EXCEPT ![fd[c]] = 0]
  /\ pc' = [pc EXCEPT ![c] = "save_close"]
  /\ UNCHANGED <<jsonIno, tmpIno, data, pdfs, nextId, op, arg, article,
                 articles, fd, exists, content, flushed, result, calls, pre>>

\* Leaving the with block closes f: the rest of the buffer is written at
\* the offset the file object has reached.
SaveClose(c) ==
  /\ pc[c] = "save_close"
  /\ fd' = [fd EXCEPT ![c] = NoIno]
  /\ data' = Sweep([data EXCEPT ![fd[c]] =
                      WriteAt(@, flushed[c],
                              SubSeq(Serialize(articles[c]), flushed[c] + 1,
                                     Len(Serialize(articles[c]))))],
                   jsonIno, tmpIno, fd')
  /\ pc' = [pc EXCEPT ![c] = "save_rename"]
  /\ UNCHANGED <<jsonIno, tmpIno, lock, pdfs, nextId, op, arg, article,
                 articles, exists, content, flushed, result, calls, pre>>

\* delete_article unlinking the blob without asking whether it exists.
DeleteSavedPcNoCheck == "del_unlink"

\* Where delete_article goes on after save_articles.
DeleteSavedPc == "del_exists"

\* temp_file.rename(ARTICLES_FILE): raises when articles.tmp is not there.
\* add_article then returns the record, which create_article returns in its
\* turn; delete_article goes on to the blob; save_articles itself returns
\* None.
SaveRename(c) ==
  /\ pc[c] = "save_rename"
  /\ IF tmpIno = NoIno
     THEN /\ Raise(c, "FileNotFoundError")
          /\ UNCHANGED <<jsonIno, tmpIno, data>>
     ELSE /\ jsonIno' = tmpIno
          /\ tmpIno' = NoIno
          /\ data' = Sweep(data, jsonIno', tmpIno', fd)
          /\ IF op[c] = "add" \/ op[c] = "create"
             THEN Return(c, article[c])
             ELSE IF op[c] = "resave"
             THEN Return(c, NoArticle)
             ELSE /\ pc' = [pc EXCEPT ![c] = DeleteSavedPc]
                  /\ UNCHANGED <<article, articles, exists, content, flushed,
                                 result>>
  /\ UNCHANGED <<lock, pdfs, nextId, op, arg, fd, calls, pre>>

----------------------------------------------------------------------------
\* add_article, delete_article and get_article after load_articles

\* articles.append(article)
AddAppend(c) ==
  /\ pc[c] = "add_append"
  /\ articles' = [articles EXCEPT ![c] = Append(@, article[c])]
  /\ pc' = [pc EXCEPT ![c] = "save_open"]
  /\ UNCHANGED <<fsVars, nextId, op, arg, article, fd, exists, content,
                 flushed, result, calls, pre>>

\* delete_article going to the blob without saving the reduced list.
DeleteFoundPcNoSave == "del_exists"

\* Where delete_article goes on when the record is found.
DeleteFoundPc == "save_open"

\* The record is looked up; absent: return False; present: it is filtered
\* out of the list, which is then saved.
DelFind(c) ==
  /\ pc[c] = "del_find"
  /\ IF FindArticle(articles[c], arg[c]) = NoArticle
     THEN Return(c, FALSE)
     ELSE /\ article' = [article EXCEPT ![c] = FindArticle(articles[c], arg[c])]
          /\ articles' = [articles EXCEPT ![c] = WithoutId(@, arg[c])]
          /\ pc' = [pc EXCEPT ![c] = DeleteFoundPc]
          /\ UNCHANGED <<exists, content, flushed, result>>
  /\ UNCHANGED <<fsVars, nextId, op, arg, fd, calls, pre>>

\* if pdf_path.exists():
DelExists(c) ==
  /\ pc[c] = "del_exists"
  /\ IF pdfs[article[c].filename] # ENOENT
     THEN /\ pc' = [pc EXCEPT ![c] = "del_unlink"]
          /\ UNCHANGED <<article, articles, exists, content, flushed, result>>
     ELSE Return(c, TRUE)
  /\ UNCHANGED <<fsVars, nextId, op, arg, fd, calls, pre>>

\* pdf_path.unlink(): raises when the blob is gone since the check.
DelUnlink(c) ==
  /\ pc[c] = "del_unlink"
  /\ IF pdfs[article[c].filename] # ENOENT
     THEN /\ pdfs' = [pdfs EXCEPT ![article[c].filename] = ENOENT]
          /\ Return(c, TRUE)
     ELSE /\ Raise(c, "FileNotFoundError")
          /\ UNCHANGED pdfs
  /\ UNCHANGED <<jsonIno, tmpIno, data, lock, nextId, op, arg, fd, calls, pre>>

\* get_article returns the record, or None.
GetFind(c) ==
  /\ pc[c] = "get_find"
  /\ Return(c, FindArticle(articles[c], arg[c]))
  /\ UNCHANGED <<fsVars, nextId, op, arg, fd, calls, pre>>

----------------------------------------------------------------------------
LoadStep(c) ==
  \/ LoadExists(c)
  \/ LoadOpen(c)
  \/ LoadLock(c)
  \/ LoadRead(c)
  \/ LoadUnlock(c)

SaveStep(c) ==
  \/ SaveOpen(c)
  \/ SaveLock(c)
  \/ SaveDump(c)
  \/ SaveUnlock(c)
  \/ SaveClose(c)
  \/ SaveRename(c)

\* Request contexts calling add_article, delete_article and get_article.
Next ==
  \E c \in Ctx :
    \/ AddArticle(c)
    \/ AddOpenPdf(c)
    \/ AddWritePdf(c)
    \/ AddAppend(c)
    \/ DeleteArticle(c)
    \/ DelFind(c)
    \/ DelExists(c)
    \/ DelUnlink(c)
    \/ GetArticle(c)
    \/ GetFind(c)
    \/ LoadStep(c)
    \/ SaveStep(c)

Spec == Init /\ [][Next]_vars

----------------------------------------------------------------------------
\* Concurrent add_article calls on an empty data directory.

InitAdds ==
  /\ InitStore(0)
  /\ InitCtx
  /\ pre = Untracked

NextAdds ==
  \E c \in Ctx :
    \/ AddArticle(c)
    \/ AddOpenPdf(c)
    \/ AddWritePdf(c)
    \/ AddAppend(c)
    \/ LoadStep(c)
    \/ SaveStep(c)

SpecAdds == InitAdds /\ [][NextAdds]_vars

----------------------------------------------------------------------------
\* Failures of a context

Caller == CHOOSE c \in Ctx : \A d \in Ctx : c <= d

\* The file is closed with the lock left in place.
DropKeepsLock(c, d) ==
  /\ UNCHANGED lock
  /\ fd' = [fd EXCEPT ![c] = NoIno]
  /\ data' = Sweep(d, jsonIno, tmpIno, fd')

\* The context loses its open file, and with it the lock it holds.
Drop(c, d) ==
  /\ lock' = [i \in Inodes |-> IF lock[i] = c THEN 0 ELSE lock[i]]
  /\ fd' = [fd EXCEPT ![c] = NoIno]
  /\ data' = Sweep(d, jsonIno, tmpIno, fd')

\* The process is killed: what its buffers hold is never written.
Crash(c) ==
  /\ pc[c] # "idle"
  /\ Drop(c, data)
  /\ pc' = [pc EXCEPT ![c] = "idle"]
  /\ result' = [result EXCEPT ![c] = Crashed]
  /\ article' = [article EXCEPT ![c] = NoArticle]
  /\ articles' = [articles EXCEPT ![c] = <<>>]
  /\ exists' = [exists EXCEPT ![c] = FALSE]
  /\ content' = [content EXCEPT ![c] = <<>>]
  /\ flushed' = [flushed EXCEPT ![c] = 0]
  /\ UNCHANGED <<jsonIno, tmpIno, pdfs, nextId, op, arg, calls, pre>>

\* The positions whose system call can fail with an OSError.
FailPcs ==
  {"add_open", "add_write", "load_open", "load_lock", "load_read",
   "save_open", "save_lock", "save_dump", "save_close", "save_rename",
   "del_unlink"}

\* The system call at the context's position fails.  Nothing is changed by
\* the failing call itself, but a failing write may have written a part: of
\* the text of json.dump, any prefix; of what close flushes, any prefix of
\* the rest.  The with block closes the file and the exception leaves the
\* storage function.
IOError(c) ==
  /\ pc[c] \in FailPcs
  /\ \E j \in 0..Len(Serialize(articles[c])) :
       /\ pc[c] = "save_dump" \/ pc[c] = "save_close" \/ j = 0
       /\ pc[c] = "save_close" => j >= flushed[c]
       /\ Drop(c, IF pc[c] = "save_dump"
                  THEN [data EXCEPT ![fd[c]] =
                          WriteAt(@, 0, SubSeq(Serialize(articles[c]), 1, j))]
                  ELSE IF pc[c] = "save_close"
                  THEN [data EXCEPT ![fd[c]] =
                          WriteAt(@, flushed[c],
                                  SubSeq(Serialize(articles[c]),
                                         flushed[c] + 1, j))]
                  ELSE data)
  /\ pc' = [pc EXCEPT ![c] = "idle"]
  /\ result' = [result EXCEPT ![c] = Raised("OSError")]
  /\ article' = [article EXCEPT ![c] = NoArticle]
  /\ articles' = [articles EXCEPT ![c] = <<>>]
  /\ exists' = [exists EXCEPT ![c] = FALSE]
  /\ content' = [content EXCEPT ![c] = <<>>]
  /\ flushed' = [flushed EXCEPT ![c] = 0]
  /\ UNCHANGED <<jsonIno, tmpIno, pdfs, nextId, op, arg, calls, pre>>

----------------------------------------------------------------------------
\* Concurrent delete_article calls, which load the manifest and, for an id
\* that is in it, save it, and whose read or write under the lock may fail;
\* each context is scheduled again and again while it has a step to take.

\* The steps of a call that has begun.
Continue(c) ==
  \/ DelFind(c)
  \/ DelExists(c)
  \/ DelUnlink(c)
  \/ LoadStep(c)
  \/ SaveStep(c)

\* f.read() or json.dump fails while the context holds the lock.
LockedIOError(c) ==
  /\ pc[c] \in {"load_read", "save_dump"}
  /\ IOError(c)

InitLocks ==
  /\ InitStore(InitRecords)
  /\ InitCtx
  /\ pre = Untracked

\* A call begins, while the contexts have begun fewer than LockCalls.
BeginCall(c) ==
  /\ calls < LockCalls
  /\ DeleteArticle(c)

NextLocks ==
  \E c \in Ctx :
    \/ BeginCall(c)
    \/ Continue(c)
    \/ LockedIOError(c)

SpecLocks ==
  /\ InitLocks
  /\ [][NextLocks]_vars
  /\ \A c \in Ctx : WF_vars(Continue(c))

----------------------------------------------------------------------------
\* A single caller, whose process may be killed between any two steps and
\* whose system calls may fail.

InitSeq ==
  /\ \E n \in 0..InitRecords : InitStore(n)
  /\ InitCtx
  /\ pre = Snapshot(Caller)

NextSeq ==
  \E c \in {Caller} :
    \/ AddArticle(c)
    \/ AddOpenPdf(c)
    \/ AddWritePdf(c)
    \/ AddAppend(c)
    \/ DeleteArticle(c)
    \/ DelFind(c)
    \/ DelExists(c)
    \/ DelUnlink(c)
    \/ GetArticle(c)
    \/ GetFind(c)
    \/ LoadStep(c)
    \/ SaveStep(c)
    \/ Crash(c)
    \/ IOError(c)

SpecSeq == InitSeq /\ [][NextSeq]_vars

----------------------------------------------------------------------------
\* A single caller that also writes back the collection it loads.

NextResave ==
  \E c \in {Caller} :
    \/ AddArticle(c)
    \/ AddOpenPdf(c)
    \/ AddWritePdf(c)
    \/ AddAppend(c)
    \/ DeleteArticle(c)
    \/ DelFind(c)
    \/ DelExists(c)
    \/ DelUnlink(c)
    \/ ResaveArticles(c)
    \/ LoadStep(c)
    \/ SaveStep(c)

SpecResave == InitSeq /\ [][NextResave]_vars

----------------------------------------------------------------------------
\* A single caller of add_article and delete_article, on a data directory
\* whose blobs something else may remove between two calls.

\* A blob is removed from pdfs/ by something other than the store.
BlobRemoved(c) ==
  \E f \in Filenames :
    /\ pc[c] = "idle"
    /\ pdfs[f] # ENOENT
    /\ pdfs' = [pdfs EXCEPT ![f] = ENOENT]
    /\ UNCHANGED <<jsonIno, tmpIno, data, lock, nextId, pc, op, arg, article,
                   articles, fd, exists, content, flushed, result, calls, pre>>

NextDelete ==
  \E c \in {Caller} :
    \/ AddArticle(c)
    \/ AddOpenPdf(c)
    \/ AddWritePdf(c)
    \/ AddAppend(c)
    \/ DeleteArticle(c)
    \/ DelFind(c)
    \/ DelExists(c)
    \/ DelUnlink(c)
    \/ LoadStep(c)
    \/ SaveStep(c)
    \/ BlobRemoved(c)

SpecDelete == InitSeq /\ [][NextDelete]_vars

----------------------------------------------------------------------------
\* Documents (backend/extractor.py).  A text is a sequence of characters; a
\* document is the sequence of nodes BeautifulSoup(html, 'html.parser')
\* yields: text nodes and elements, each element with its children.

Space == " "

\* str.strip(): the text without its leading and trailing whitespace.
Strip(text) ==
  LET inked == {i \in 1..Len(text) : text[i] # Space}
  IN IF inked = {} THEN <<>>
     ELSE SubSeq(text,
                 CHOOSE i \in inked : \A k \in inked : i <= k,
                 CHOOSE i \in inked : \A k \in inked : i >= k)

TextNode(text) ==
  [tag |-> "#text", cls |-> "", prop |-> "", val |-> text, kids |-> <<>>]
Elem(tag, cls, kids) ==
  [tag |-> tag, cls |-> cls, prop |-> "", val |-> <<>>, kids |-> kids]
\* <meta property=prop content=content>; an absent content attribute and an
\* empty one are both false where the code tests them.
Meta(prop, text) ==
  [tag |-> "meta", cls |-> "", prop |-> prop, val |-> text, kids |-> <<>>]
\* What find and select_one return when nothing matches (None).
NoNode ==
  [tag |-> "#none", cls |-> "", prop |-> "", val |-> <<>>, kids |-> <<>>]

\* The elements under the nodes, in document order.
RECURSIVE Elements(_)
Elements(nodes) ==
  IF nodes = <<>> THEN <<>>
  ELSE (IF Head(nodes).tag = "#text" THEN <<>>
        ELSE <<Head(nodes)>> \o Elements(Head(nodes).kids))
       \o Elements(Tail(nodes))

\* The strings under the nodes, in document order.
RECURSIVE Strings(_)
Strings(nodes) ==
  IF nodes = <<>> THEN <<>>
  ELSE (IF Head(nodes).tag = "#text" THEN <<Head(nodes).val>>
        ELSE Strings(Head(nodes).kids))
       \o Strings(Tail(nodes))

\* The first of the elements whose positions are hits, NoNode when there
\* is none.
First(elems, hits) ==
  IF hits = {} THEN NoNode
  ELSE elems[CHOOSE i \in hits : \A k \in hits : i <= k]

\* soup.find(tag)
Find(nodes, tag) ==
  First(Elements(nodes),
        {i \in 1..Len(Elements(nodes)) : Elements(nodes)[i].tag = tag})

\* Tag.string: the string of an element whose only child is a string, or
\* whose only child is an element that has one; None otherwise, which the
\* code tests like the empty string.
RECURSIVE StringOf(_)
StringOf(elem) ==
  IF Len(elem.kids) # 1 THEN <<>>
  ELSE IF elem.kids[1].tag = "#text" THEN elem.kids[1].val
  ELSE StringOf(elem.kids[1])

\* "".join of the texts.
RECURSIVE Join(_)
Join(texts) ==
  IF texts = <<>> THEN <<>> ELSE Head(texts) \o Join(Tail(texts))

\* Tag.get_text(strip=True): every string of the element stripped, the empty
\* ones dropped, the others joined with nothing between them.
GetTextStripped(elem) ==
  Join([i \in 1..Len(Strings(elem.kids)) |-> Strip(Strings(elem.kids)[i])])

\* The sentinel title.
Untitled == <<"Untitled">>

----------------------------------------------------------------------------
\* _extract_title

\* soup.find('meta', property='og:title')
FindOgTitle(nodes) ==
  First(Elements(nodes),
        {i \in 1..Len(Elements(nodes)) :
           /\ Elements(nodes)[i].tag = "meta"
           /\ Elements(nodes)[i].prop = "og:title"})

\* _extract_title(soup)
ExtractTitle(doc) ==
  IF Find(doc, "title") # NoNode /\ StringOf(Find(doc, "title")) # <<>>
  THEN Strip(StringOf(Find(doc, "title")))
  ELSE IF Find(doc, "h1") # NoNode /\ GetTextStripped(Find(doc, "h1")) # <<>>
  THEN GetTextStripped(Find(doc, "h1"))
  ELSE IF FindOgTitle(doc) # NoNode /\ FindOgTitle(doc).val # <<>>
  THEN Strip(FindOgTitle(doc).val)
  ELSE Untitled

----------------------------------------------------------------------------
\* _extract_content

\* The elements decompose() is called on.
Removed == {"script", "style", "nav", "header", "footer"}

\* The nodes once every element of Removed is decomposed, with all it
\* contains.
RECURSIVE Decompose(_)
Decompose(nodes) ==
  IF nodes = <<>> THEN <<>>
  ELSE (IF Head(nodes).tag \in Removed THEN <<>>
        ELSE IF Head(nodes).tag = "#text" THEN <<Head(nodes)>>
        ELSE <<[Head(nodes) EXCEPT !.kids = Decompose(@)]>>)
       \o Decompose(Tail(nodes))

\* The selectors tried in turn: a tag ("" for any) and a class.
Selectors ==
  << [tag |-> "div", cls |-> "content"],
     [tag |-> "div", cls |-> "post"],
     [tag |-> "div", cls |-> "entry"],
     [tag |-> "div", cls |-> "post-content"],
     [tag |-> "", cls |-> "article-body"] >>

\* soup.select_one(selector)
SelectOne(nodes, sel) ==
  First(Elements(nodes),
        {i \in 1..Len(Elements(nodes)) :
           /\ sel.tag = "" \/ Elements(nodes)[i].tag = sel.tag
           /\ Elements(nodes)[i].cls = sel.cls})

\* str() of the nodes: the start tag, the content and the end tag of each
\* element, the text of each string.
RECURSIVE Str(_)
Str(nodes) ==
  IF nodes = <<>> THEN <<>>
  ELSE (IF Head(nodes).tag = "#text"
        THEN <<[k |-> "text", v |-> "", c |-> "", t |-> Head(nodes).val]>>
        ELSE IF Head(nodes).tag = "meta"
        THEN <<[k |-> "void", v |-> "meta", c |-> Head(nodes).prop,
                t |-> Head(nodes).val]>>
        ELSE <<[k |-> "start", v |-> Head(nodes).tag, c |-> Head(nodes).cls,
                t |-> <<>>]>>
             \o Str(Head(nodes).kids)
             \o <<[k |-> "end", v |-> Head(nodes).tag, c |-> "", t |-> <<>>]>>)
       \o Str(Tail(nodes))

\* The content root found in a soup: article, main, the first selector that
\* matches, body, or the soup itself.
ContentRoot(soup) ==
  LET matching == {i \in 1..Len(Selectors) :
                     SelectOne(soup, Selectors[i]) # NoNode}
  IN IF Find(soup, "article") # NoNode THEN <<Find(soup, "article")>>
     ELSE IF Find(soup, "main") # NoNode THEN <<Find(soup, "main")>>
     ELSE IF matching # {}
     THEN <<SelectOne(soup,
                      Selectors[CHOOSE i \in matching :
                                  \A k \in matching : i <= k])>>
     ELSE IF Find(soup, "body") # NoNode THEN <<Find(soup, "body")>>
     ELSE soup

\* The extraction that looks for the root without decomposing anything.
ExtractContentNoDecompose(doc) == Str(ContentRoot(doc))

\* _extract_content(soup)
ExtractContent(doc) == Str(ContentRoot(Decompose(doc)))

----------------------------------------------------------------------------
\* The domain of a URL (extract_article).  A URL is a sequence of parts: the
\* scheme with its colon, "//", the parts of the authority, the parts of
\* the path, query and fragment.

\* The parts that end the authority.
PathParts == {"/a", "/www.", "?q=1", "#f"}

\* urlparse(url).netloc: what stands between "//" and the first "/", "?" or
\* "#".
Netloc(url) ==
  IF Len(url) < 2 \/ url[2] # "//" THEN <<>>
  ELSE LET ends == {i \in 3..Len(url) : url[i] \in PathParts}
           last == IF ends = {} THEN Len(url)
                   ELSE (CHOOSE i \in ends : \A k \in ends : i <= k) - 1
       IN SubSeq(url, 3, last)

\* domain = parsed.netloc, less its first four characters when it starts
\* with "www."
Domain(url) ==
  IF Netloc(url) # <<>> /\ Netloc(url)[1] = "www."
  THEN Tail(Netloc(url))
  ELSE Netloc(url)

----------------------------------------------------------------------------
\* The documents and URLs the functions of the extractor are applied to.

\* What a <title> may contain: nothing, a text, a text in whitespace,
\* whitespace alone, a text followed by an element, an element alone.
TitleKids ==
  { <<>>,
    <<TextNode(<<"t">>)>>,
    <<TextNode(<<" ", "t", " ">>)>>,
    <<TextNode(<<" ">>)>>,
    <<TextNode(<<"t", " ">>), Elem("b", "", <<TextNode(<<"b">>)>>)>>,
    <<Elem("b", "", <<TextNode(<<"t">>)>>)>> }

\* What an <h1> may contain.
H1Kids ==
  { <<>>,
    <<TextNode(<<"h">>)>>,
    <<TextNode(<<" ">>)>>,
    <<TextNode(<<" ", "h", " ">>), Elem("em", "", <<TextNode(<<"e">>)>>)>> }

\* The content attribute of the og:title meta.
OgContents == { <<>>, <<"o">>, <<" ">>, <<" ", "o", " ">> }

TitleParts == {<<>>} \cup {<<Elem("title", "", k)>> : k \in TitleKids}
H1Parts == {<<>>} \cup {<<Elem("h1", "", k)>> : k \in H1Kids}
OgParts ==
  {<<>>} \cup {<<Meta("description", <<"d">>), Meta("og:title", o)>> :
                 o \in OgContents}

Paragraph == Elem("p", "", <<TextNode(<<"p">>)>>)

\* <html><head>title, metas</head><body>h1, blocks</body></html>
Page(title, metas, blocks) ==
  <<Elem("html", "",
         <<Elem("head", "", title \o metas), Elem("body", "", blocks)>>)>>

\* Documents that differ in their title sources.
TitleDocs ==
  {Page(t, m, h \o <<Paragraph>>) :
     t \in TitleParts, m \in OgParts, h \in H1Parts}

\* The containers a page is made of: the content roots the code looks for,
\* each alone, some inside or around elements the code decomposes, and
\* containers it does not look for.
Blocks ==
  { Elem("article", "", <<TextNode(<<"a">>)>>),
    Elem("article", "",
         <<Elem("header", "", <<TextNode(<<"x">>)>>), Paragraph>>),
    Elem("main", "", <<Paragraph>>),
    Elem("div", "content", <<Paragraph>>),
    Elem("div", "post", <<Paragraph>>),
    Elem("div", "entry", <<Paragraph>>),
    Elem("div", "post-content", <<Paragraph>>),
    Elem("section", "article-body", <<Paragraph>>),
    Elem("div", "", <<Paragraph>>),
    Elem("footer", "", <<Elem("article", "", <<TextNode(<<"f">>)>>)>>),
    Elem("nav", "", <<Elem("main", "", <<TextNode(<<"n">>)>>)>>),
    Elem("script", "", <<TextNode(<<"s">>)>>) }

\* At most MaxBlocks containers one after the other.
BlockSeqs == UNION {[1..n -> Blocks] : n \in 0..MaxBlocks}

\* Documents that differ in their structure: pages, and fragments without
\* html, head and body.
ContentDocs == {Page(<<>>, <<>>, b) : b \in BlockSeqs} \cup BlockSeqs

\* URLs: a scheme, an authority (user information, labels, a port) and
\* what follows it.
Schemes == {"https:", "http:"}
UserInfos == {<<>>, <<"user@">>}
Labels == {"www.", "WWW.", "sub."}
LabelSeqs == UNION {[1..n -> Labels] : n \in 0..MaxLabels}
Ports == {<<>>, <<":8080">>}
Paths == {<<>>, <<"/a">>, <<"/www.">>, <<"?q=1">>}

Url(scheme, user, labels, port, path) ==
  <<scheme, "//">> \o user \o labels \o <<"example.com">> \o port \o path

Urls ==
  {Url(sc, u, l, p, pa) :
     sc \in Schemes, u \in UserInfos, l \in LabelSeqs, p \in Ports,
     pa \in Paths}

----------------------------------------------------------------------------
\* The functions of the extractor, each called on its own.

CallExtractTitle(c) ==
  \E doc \in TitleDocs :
    /\ Enter(c, "_extract_title", doc, NoArticle, "extract_title")
    /\ UNCHANGED nextId

ExtractTitleReturns(c) ==
  /\ pc[c] = "extract_title"
  /\ Return(c, ExtractTitle(arg[c]))
  /\ UNCHANGED <<fsVars, nextId, op, arg, fd, calls, pre>>

CallExtractContent(c) ==
  \E doc \in ContentDocs :
    /\ Enter(c, "_extract_content", doc, NoArticle, "extract_content")
    /\ UNCHANGED nextId

ExtractContentReturns(c) ==
  /\ pc[c] = "extract_content"
  /\ Return(c, ExtractContent(arg[c]))
  /\ UNCHANGED <<fsVars, nextId, op, arg, fd, calls, pre>>

\* The domain part of extract_article.
CallDomain(c) ==
  \E url \in Urls :
    /\ Enter(c, "domain", url, NoArticle, "extract_domain")
    /\ UNCHANGED nextId

DomainReturns(c) ==
  /\ pc[c] = "extract_domain"
  /\ Return(c, Domain(arg[c]))
  /\ UNCHANGED <<fsVars, nextId, op, arg, fd, calls, pre>>

InitExtract ==
  /\ InitStore(0)
  /\ InitCtx
  /\ pre = Untracked

NextExtract ==
  \E c \in {Caller} :
    \/ CallExtractTitle(c)
    \/ ExtractTitleReturns(c)
    \/ CallExtractContent(c)
    \/ ExtractContentReturns(c)
    \/ CallDomain(c)
    \/ DomainReturns(c)

SpecExtract == InitExtract /\ [][NextExtract]_vars

----------------------------------------------------------------------------
\* create_article (backend/main.py): the body is validated, the URL fetched
\* and the article extracted (extract_article), the PDF rendered
\* (generate_pdf) and the article stored (add_article).

\* The value of "url" in a body: absent (None), a number, or a string.
NoUrl == [type |-> "none", val |-> <<>>]
NumberUrl == [type |-> "int", val |-> <<>>]
StringUrl(url) == [type |-> "str", val |-> url]

\* Request bodies: one that is no JSON, a JSON array, and objects with no
\* url, a number, an empty string, an ftp URL and http(s) URLs.
Bodies ==
  { [json |-> FALSE, object |-> FALSE, url |-> NoUrl],
    [json |-> TRUE, object |-> FALSE, url |-> NoUrl],
    [json |-> TRUE, object |-> TRUE, url |-> NoUrl],
    [json |-> TRUE, object |-> TRUE, url |-> NumberUrl],
    [json |-> TRUE, object |-> TRUE, url |-> StringUrl(<<>>)],
    [json |-> TRUE, object |-> TRUE,
     url |-> StringUrl(<<"ftp:", "//", "example.com", "/a">>)],
    [json |-> TRUE, object |-> TRUE,
     url |-> StringUrl(Url("https:", <<>>, <<"www.">>, <<>>, <<"/a">>))],
    [json |-> TRUE, object |-> TRUE,
     url |-> StringUrl(Url("http:", <<>>, <<"sub.">>, <<>>, <<>>))] }

\* The documents the fetch may answer with: an empty one, one that is all
\* script, and two articles.
FetchedDocs ==
  { <<>>,
    <<Elem("script", "", <<TextNode(<<"s">>)>>)>>,
    Page(<<Elem("title", "", <<TextNode(<<" ", "t", " ">>)>>)>>, <<>>,
         <<Elem("nav", "", <<Paragraph>>),
           Elem("article", "", <<TextNode(<<"a">>)>>)>>),
    <<Elem("h1", "", <<TextNode(<<"h">>)>>), Paragraph>> }

\* An error response.
Http(code, detail) == [http |-> code, detail |-> detail]

\* The locals of create_article, with the stage the request has passed.
Request(body) ==
  [stage |-> "received", body |-> body, url |-> <<>>, doc |-> <<>>,
   title |-> <<>>, content |-> <<>>, domain |-> <<>>, pdf_bytes |-> <<>>]

\* if not url or not isinstance(url, str)
UrlMissing(url) == url.type # "str" \/ url.val = <<>>

\* The scheme test that lets every URL through.
ValidSchemeAny(url) == TRUE

\* url.startswith(("http://", "https://"))
ValidScheme(url) ==
  /\ Len(url) >= 2
  /\ url[1] \in {"http:", "https:"}
  /\ url[2] = "//"

\* The test of the content that never fails.
ContentMissingNever(html) == FALSE

\* if not content
ContentMissing(html) == html = <<>>

\* pdfkit.from_string of the template filled with title, url and content.
PdfOf(title, html, url) == <<"%PDF", title, url, html>>

\* A request arrives.
CreateArticle(c) ==
  \E body \in Bodies :
    /\ nextId <= MaxIds
    /\ Enter(c, "create", Request(body), NoArticle, "create_json")
    /\ UNCHANGED nextId

\* body = await request.json()
CreateJson(c) ==
  /\ pc[c] = "create_json"
  /\ IF arg[c].body.json
     THEN /\ pc' = [pc EXCEPT ![c] = "create_validate"]
          /\ UNCHANGED <<article, articles, exists, content, flushed, result>>
     ELSE Raise(c, Http(422, "Invalid JSON body"))
  /\ UNCHANGED <<fsVars, nextId, op, arg, fd, calls, pre>>

\* url = body.get("url") and its two tests; a body that is no object has no
\* get: the AttributeError is answered with 500.
CreateValidate(c) ==
  /\ pc[c] = "create_validate"
  /\ IF ~arg[c].body.object
     THEN /\ Raise(c, Http(500, "AttributeError"))
          /\ UNCHANGED arg
     ELSE IF UrlMissing(arg[c].body.url)
     THEN /\ Raise(c, Http(422, "URL is required"))
          /\ UNCHANGED arg
     ELSE IF ~ValidScheme(arg[c].body.url.val)
     THEN /\ Raise(c, Http(422, "Invalid URL scheme"))
          /\ UNCHANGED arg
     ELSE /\ arg' = [arg EXCEPT ![c].stage = "validated",
                                ![c].url = arg[c].body.url.val]
          /\ pc' = [pc EXCEPT ![c] = "extract_get"]
          /\ UNCHANGED <<article, articles, exists, content, flushed, result>>
  /\ UNCHANGED <<fsVars, nextId, op, fd, calls, pre>>

\* requests.get and raise_for_status: a document, or an exception, which
\* create_article answers with 500.
ExtractGet(c) ==
  /\ pc[c] = "extract_get"
  /\ \/ /\ Raise(c, Http(500, "RequestException"))
        /\ UNCHANGED arg
     \/ \E doc \in FetchedDocs :
          /\ arg' = [arg EXCEPT ![c].stage = "fetched", ![c].doc = doc]
          /\ pc' = [pc EXCEPT ![c] = "extract_parse"]
          /\ UNCHANGED <<article, articles, exists, content, flushed, result>>
  /\ UNCHANGED <<fsVars, nextId, op, fd, calls, pre>>

\* The rest of extract_article: domain, title and content; it raises when
\* there is no content.
ExtractParse(c) ==
  /\ pc[c] = "extract_parse"
  /\ IF ContentMissing(ExtractContent(arg[c].doc))
     THEN /\ Raise(c, Http(500, "Could not extract article content from this URL"))
          /\ UNCHANGED arg
     ELSE /\ arg' = [arg EXCEPT ![c].stage = "extracted",
                                ![c].domain = Domain(arg[c].url),
                                ![c].title = ExtractTitle(arg[c].doc),
                                ![c].content = ExtractContent(arg[c].doc)]
          /\ pc' = [pc EXCEPT ![c] = "create_render"]
          /\ UNCHANGED <<article, articles, exists, content, flushed, result>>
  /\ UNCHANGED <<fsVars, nextId, op, fd, calls, pre>>

\* pdf_generator.generate_pdf: the PDF, or an exception of pdfkit.
GeneratePdf(c) ==
  /\ pc[c] = "create_render"
  /\ \/ /\ Raise(c, Http(500, "OSError"))
        /\ UNCHANGED arg
     \/ /\ arg' = [arg EXCEPT ![c].stage = "rendered",
                              ![c].pdf_bytes =
                                PdfOf(arg[c].title, arg[c].content, arg[c].url)]
        /\ pc' = [pc EXCEPT ![c] = "create_store"]
        /\ UNCHANGED <<article, articles, exists, content, flushed, result>>
  /\ UNCHANGED <<fsVars, nextId, op, fd, calls, pre>>

\* storage.add_article is called with what was extracted and rendered.
CreateStore(c) ==
  /\ pc[c] = "create_store"
  /\ \E now \in Times :
       article' = [article EXCEPT ![c] = MakeArticle(nextId, arg[c], now)]
  /\ nextId' = nextId + 1
  /\ arg' = [arg EXCEPT ![c].stage = "stored"]
  /\ pc' = [pc EXCEPT ![c] = "add_open"]
  /\ UNCHANGED <<fsVars, op, articles, fd, exists, content, flushed, result,
                 calls, pre>>

InitCreate ==
  /\ InitStore(0)
  /\ InitCtx
  /\ pre = Snapshot(Caller)

NextCreate ==
  \E c \in {Caller} :
    \/ CreateArticle(c)
    \/ CreateJson(c)
    \/ CreateValidate(c)
    \/ ExtractGet(c)
    \/ ExtractParse(c)
    \/ GeneratePdf(c)
    \/ CreateStore(c)
    \/ AddOpenPdf(c)
    \/ AddWritePdf(c)
    \/ AddAppend(c)
    \/ LoadStep(c)
    \/ SaveStep(c)

SpecCreate == InitCreate /\ [][NextCreate]_vars

----------------------------------------------------------------------------
\* Claims

AllIdle == \A c \in Ctx : pc[c] = "idle"

\* Whether the blob a record names is on disk.
BlobPresent(a) == pdfs[a.filename] # ENOENT

\* Whether no two records of the collection have the same id.
DistinctIds(coll) ==
  \A i, j \in 1..Len(coll) : i # j => coll[i].id # coll[j].id

\* C1: N concurrent add_article calls on an empty store all complete without
\* raising, and once all have returned the manifest holds exactly N records
\* with N distinct ids, each with its blob on disk.  (SpecAdds: `calls` is N.)
C1_ConcurrentAddsAllStored ==
  /\ \A c \in Ctx : result[c].status # "raise"
  /\ AllIdle =>
       /\ WellFormed(ManifestText) \/ calls = 0
       /\ Len(ManifestRecords) = calls
       /\ DistinctIds(ManifestRecords)
       /\ \A i \in 1..Len(ManifestRecords) : BlobPresent(ManifestRecords[i])

\* C2: what load_articles reads from articles.json is one complete
\* serialized collection, never a truncated, partial or mixed text: right
\* after f.read(), the content is a text json.dump wrote in full, with no
\* record in it twice.
C2_ReadsCompleteManifest ==
  \A c \in Ctx :
    pc[c] = "load_unlock" =>
      /\ WellFormed(content[c])
      /\ DistinctIds(JsonLoads(content[c]))

\* C3: with add_article and delete_article running concurrently, whenever no
\* delete_article call is in progress every record of the manifest has its
\* blob on disk.
C3_LiveRecordHasBlob ==
  (\A c \in Ctx : ~(op[c] = "delete" /\ pc[c] # "idle")) =>
    \A i \in 1..Len(ManifestRecords) : BlobPresent(ManifestRecords[i])

\* C5: in every reachable state no two records of the manifest have the same
\* id, and the record an id names is the one add_article built for it.
C5_IdsUnique ==
  /\ DistinctIds(ManifestRecords)
  /\ \A i \in 1..Len(ManifestRecords) :
       \E inp \in Inputs, now \in Times :
         ManifestRecords[i] = MakeArticle(ManifestRecords[i].id, inp, now)

\* C4: a single caller, killed between any two steps: on disk every record
\* of the manifest has its blob, and the manifest, once there, is always a
\* complete text.
C4_CrashNeverLeavesRecordWithoutBlob ==
  /\ jsonIno # NoIno => WellFormed(ManifestText)
  /\ \A i \in 1..Len(ManifestRecords) : BlobPresent(ManifestRecords[i])

\* C4's case: the caller was killed and left a blob no record names.
C4_Witness ==
  /\ result[Caller] = Crashed
  /\ \E f \in Filenames :
       /\ pdfs[f] # ENOENT
       /\ \A i \in 1..Len(ManifestRecords) : ManifestRecords[i].filename # f

\* Whether the caller's call of o has returned.
Done(o) ==
  /\ pc[Caller] = "idle"
  /\ op[Caller] = o
  /\ result[Caller].status = "return"

\* C6: add_article returns a record r with the given title, url and domain
\* and filename = id + ".pdf"; afterwards the blob holds pdf_bytes, the
\* manifest is the previous collection plus r, get_article(r.id) finds r and
\* get_pdf_path(r.id) is the blob's path; a get_article(r.id) called next
\* returns r.
C6_AddThenGet ==
  /\ Done("add") =>
       LET r == result[Caller].val
       IN /\ r.title = arg[Caller].title
          /\ r.url = arg[Caller].url
          /\ r.domain = arg[Caller].domain
          /\ r.filename = <<r.id, ".pdf">>
          /\ r.id \notin RecordIds(pre.records)
          /\ pdfs[r.filename] = arg[Caller].pdf_bytes
          /\ WellFormed(ManifestText)
          /\ ManifestRecords = Append(pre.records, r)
          /\ FindArticle(ManifestRecords, r.id) = r
          /\ GetPdfPath(FindArticle(ManifestRecords, r.id))
               = <<"pdfs", <<r.id, ".pdf">>>>
  /\ (Done("get") /\ pre.op = "add" /\ pre.result.status = "return") =>
       (arg[Caller] = pre.result.val.id =>
          /\ result[Caller].val = pre.result.val
          /\ GetPdfPath(result[Caller].val) = <<"pdfs", <<arg[Caller], ".pdf">>>>)

\* C6's case: an add_article returned and the get_article of its id, called
\* next, has returned too.
C6_Witness ==
  /\ Done("get")
  /\ pre.op = "add"
  /\ pre.result.status = "return"
  /\ arg[Caller] = pre.result.val.id
  /\ Len(pre.records) > 1

\* Whether the caller's previous call was delete_article(id) and returned
\* True.
DeletedJustBefore(id) ==
  /\ pre.op = "delete"
  /\ pre.arg = id
  /\ pre.result.status = "return"
  /\ pre.result.val = TRUE

\* C7: delete_article of an id in the store returns True; called again with
\* the same id it returns False and raises nothing of its own, the record
\* and the blob are absent and every file is as the first call left it.
C7_DeleteTwice ==
  /\ (Done("delete") /\ arg[Caller] \in RecordIds(pre.records)) =>
       result[Caller].val = TRUE
  /\ (pc[Caller] = "idle" /\ op[Caller] = "delete"
        /\ DeletedJustBefore(arg[Caller])) =>
       /\ result[Caller].status = "raise" => result[Caller].val = "OSError"
       /\ result[Caller].status = "return" => result[Caller].val = FALSE
       /\ arg[Caller] \notin RecordIds(ManifestRecords)
       /\ pdfs[Filename(arg[Caller])] = ENOENT
       /\ FileView = pre.files

\* C7's case: the second of two delete_article calls of an id has returned.
C7_Witness ==
  /\ Done("delete")
  /\ DeletedJustBefore(arg[Caller])
  /\ Len(ManifestRecords) > 0

LoadPcs == {"load_exists", "load_open", "load_lock", "load_read", "load_unlock"}

\* C8: delete_article of an id that is not in the manifest it loaded returns
\* False, and no step of the call up to there changes a file: articles.json,
\* articles.tmp and the blobs are what they were (save_articles is not
\* entered, nothing is unlinked).
C8_DeleteAbsentNoEffect ==
  [][\A c \in Ctx :
       (op[c] = "delete" /\ pc[c] \in LoadPcs \cup {"del_find"}
          /\ pc'[c] # pc[c]) =>
         /\ FileView' = FileView
         /\ (pc[c] = "del_find" /\ arg[c] \notin RecordIds(articles[c])) =>
              /\ pc'[c] = "idle"
              /\ result'[c] = Returned(FALSE)]_vars

\* C8's case: a delete_article of an absent id has returned False while the
\* store holds records and blobs.
C8_Witness ==
  \E c \in Ctx :
    /\ pc[c] = "idle"
    /\ op[c] = "delete"
    /\ result[c].status = "return"
    /\ result[c].val = FALSE
    /\ Len(ManifestRecords) > 0

\* C9: when add_article or delete_article ends by raising, the manifest
\* holds the records it held before the call and the blob of the record
\* delete_article was to delete is still there.
C9_FailureLeavesStateIntact ==
  (pc[Caller] = "idle" /\ op[Caller] \in {"add", "delete"}
     /\ result[Caller].status = "raise") =>
    /\ ManifestRecords = pre.records
    /\ op[Caller] = "delete" =>
         pdfs[Filename(arg[Caller])] = pre.files[5][Filename(arg[Caller])]

AfterLoadPcs == {"add_append", "del_find", "get_find"}

\* C10: load_articles returns the empty list, and raises nothing, when
\* articles.json does not exist and when it is empty; in every other case it
\* returns the collection parsed from the content it read and json.loads
\* does not raise, whatever the concurrent save_articles calls do between
\* its existence check and its read.
C10_LoadArticles ==
  \A c \in Ctx :
    /\ pc[c] \in AfterLoadPcs =>
         /\ ~exists[c] => articles[c] = <<>>
         /\ (exists[c] /\ content[c] = <<>>) => articles[c] = <<>>
         /\ (exists[c] /\ content[c] # <<>>) =>
              articles[c] = JsonLoads(content[c])
    /\ pc[c] = "idle" /\ result[c].status = "raise" =>
         result[c].val # "JSONDecodeError"

C17_WritersDoNotInterleave ==
  \A c \in Ctx :
    pc[c] = "save_rename" =>
      /\ tmpIno # NoIno
      /\ TmpText = Serialize(articles[c])

\* The positions at which a context holds the lock of its open file.
LockedPcs == {"load_read", "load_unlock", "save_dump", "save_unlock"}

\* The inodes context c holds the lock of.
LocksOf(c) == {i \in Inodes : lock[i] = c}

C19_DeleteFrame ==
  [][(pc[Caller] # "idle" /\ pc'[Caller] = "idle" /\ op[Caller] = "delete"
        /\ arg[Caller] \in RecordIds(pre.records)) =>
       /\ result'[Caller] = Returned(TRUE)
       /\ ManifestRecords'
            = SelectSeq(pre.records, LAMBDA a : a.id # arg[Caller])
       /\ \A f \in Filenames :
            pdfs'[f] = IF f = FindArticle(pre.records, arg[Caller]).filename
                      THEN ENOENT
                      ELSE pre.files[5][f]]_vars

\* C19's case: the record deleted was one of several and its blob was
\* already missing.
C19_Witness ==
  /\ Done("delete")
  /\ arg[Caller] \in RecordIds(pre.records)
  /\ pre.files[5][Filename(arg[Caller])] = ENOENT
  /\ Len(pre.records) >= 2
  /\ \E f \in Filenames : pdfs[f] # ENOENT

\* The text of an element: its strings one after the other.
TextOf(elem) == Join(Strings(elem.kids))

\* C12: the title of a document is the text of its <title>, trimmed, when
\* the <title> has a non-empty text; otherwise the text of its first <h1>
\* when that has one; otherwise the content of its og:title meta when that
\* has one; otherwise "Untitled".  No later source is used while an earlier
\* one is available.
C12_TitlePriority ==
  Done("_extract_title") =>
    LET doc == arg[Caller]
        title == Find(doc, "title")
        h1 == Find(doc, "h1")
        og == FindOgTitle(doc)
    IN result[Caller].val =
         IF title # NoNode /\ TextOf(title) # <<>> THEN Strip(TextOf(title))
         ELSE IF h1 # NoNode /\ Strip(TextOf(h1)) # <<>> THEN Strip(TextOf(h1))
         ELSE IF og # NoNode /\ og.val # <<>> THEN Strip(og.val)
         ELSE Untitled

\* C16: _extract_title never returns the empty string, whatever the
\* document: a text that is not empty, or "Untitled".
C16_TitleNotEmpty ==
  Done("_extract_title") => result[Caller].val # <<>>

\* The host of a URL: its authority without user information and port.
HostOf(url) ==
  SelectSeq(url, LAMBDA p : p \in Labels \cup {"example.com"})

\* C15: the domain of a URL is its host, less one leading "www." when the
\* host starts with it and unchanged otherwise; a "www." further on stays.
C15_DomainIsHostLessWww ==
  Done("domain") =>
    result[Caller].val =
      IF HostOf(arg[Caller])[1] = "www." THEN Tail(HostOf(arg[Caller]))
      ELSE HostOf(arg[Caller])

\* The content roots in the order of the claim, 1 to 8 (9 is the whole
\* document): whether element e is a root of kind k.
IsRoot(e, k) ==
  CASE k = 1 -> e.tag = "article"
    [] k = 2 -> e.tag = "main"
    [] k = 3 -> e.tag = "div" /\ e.cls = "content"
    [] k = 4 -> e.tag = "div" /\ e.cls = "post"
    [] k = 5 -> e.tag = "div" /\ e.cls = "entry"
    [] k = 6 -> e.tag = "div" /\ e.cls = "post-content"
    [] k = 7 -> e.cls = "article-body"
    [] OTHER -> e.tag = "body"

\* The kinds of root among the nodes.
RootKinds(nodes) ==
  {k \in 1..8 : \E i \in 1..Len(Elements(nodes)) : IsRoot(Elements(nodes)[i], k)}

\* The result is the first root, in the order of the kinds, of the document
\* as the removal of script, style, nav, header and footer leaves it, and
\* holds none of these elements.
IsFirstRootAfterRemoval(doc, html) ==
  /\ \A i \in 1..Len(html) : html[i].k = "start" => html[i].v \notin Removed
  /\ IF RootKinds(Decompose(doc)) = {} THEN html = Str(Decompose(doc))
     ELSE LET first == CHOOSE k \in RootKinds(Decompose(doc)) :
                         \A j \in RootKinds(Decompose(doc)) : k <= j
              roots == {i \in 1..Len(Elements(Decompose(doc))) :
                          IsRoot(Elements(Decompose(doc))[i], first)}
          IN html = Str(<<Elements(Decompose(doc))[
                            CHOOSE i \in roots : \A j \in roots : i <= j]>>)

\* C13 as stated: the result is the first content root after the removal,
\* and for every document that contains an <article> it is that element's
\* HTML after the removal.
C13_ArticleOfDocument ==
  Done("_extract_content") =>
    /\ IsFirstRootAfterRemoval(arg[Caller], result[Caller].val)
    /\ Find(arg[Caller], "article") # NoNode =>
         result[Caller].val = Str(Decompose(<<Find(arg[Caller], "article")>>))

\* C13: the result is the first content root after the removal; for every
\* document in which an <article> is left by the removal it is the first
\* such element's HTML, and no later candidate is returned.
C13_ArticleLeftByRemoval ==
  Done("_extract_content") =>
    /\ IsFirstRootAfterRemoval(arg[Caller], result[Caller].val)
    /\ Find(Decompose(arg[Caller]), "article") # NoNode =>
         /\ result[Caller].val = Str(<<Find(Decompose(arg[Caller]), "article")>>)
         /\ result[Caller].val[1].v = "article"

\* C13's case: the only <article> of the document stands inside an element
\* that is removed, and the result is a later candidate.
C13_Witness ==
  /\ Done("_extract_content")
  /\ Find(arg[Caller], "article") # NoNode
  /\ Find(Decompose(arg[Caller]), "article") = NoNode
  /\ Find(Decompose(arg[Caller]), "main") # NoNode
  /\ result[Caller].val[1].v = "main"

\* The response to a request whose extraction failed.
ExtractionFailed ==
  Raised(Http(500, "Could not extract article content from this URL"))

\* C14: extract_article never returns an empty content: when the content
\* chain yields nothing for the fetched document, the request goes no
\* further than extract_article and ends with the extraction error as its
\* response, no PDF rendered, no file of the store changed; a request that
\* ends there ends for that reason.
C14_EmptyContentFails ==
  op[Caller] = "create" =>
    /\ arg[Caller].stage \in {"extracted", "rendered", "stored"} =>
         /\ arg[Caller].content # <<>>
         /\ arg[Caller].content = ExtractContent(arg[Caller].doc)
    /\ (arg[Caller].stage = "fetched"
          /\ ExtractContent(arg[Caller].doc) = <<>>) =>
         pc[Caller] \in {"extract_parse", "idle"}
    /\ (arg[Caller].stage = "fetched" /\ pc[Caller] = "idle") =>
         /\ ExtractContent(arg[Caller].doc) = <<>>
         /\ result[Caller] = ExtractionFailed
         /\ arg[Caller].pdf_bytes = <<>>
         /\ FileView = pre.files

\* C14's case: a document that is all script was fetched and the request
\* was answered with the extraction error, the store holding records.
C14_Witness ==
  /\ op[Caller] = "create"
  /\ pc[Caller] = "idle"
  /\ result[Caller] = ExtractionFailed
  /\ arg[Caller].doc # <<>>
  /\ Len(pre.records) >= 1

\* The stages of a request, in their order.
Stages ==
  <<"received", "validated", "fetched", "extracted", "rendered", "stored">>
StageIndex(stage) == CHOOSE i \in 1..Len(Stages) : Stages[i] = stage

\* Whether a body is a JSON object whose url is a string that starts with
\* http:// or https://.
AcceptableBody(body) ==
  /\ body.json
  /\ body.object
  /\ body.url.type = "str"
  /\ Len(body.url.val) >= 2
  /\ body.url.val[1] \in {"http:", "https:"}
  /\ body.url.val[2] = "//"

\* C20: a request passes the stages validate, fetch, extract, render and
\* store one after the other, and add_article is called only once all the
\* others are passed: no file of the store changes before.  A request
\* whose body is not acceptable, or whose fetch, extraction or rendering
\* fails, is answered with 422 or 500 and leaves the blobs and the manifest
\* as they were; a request answered with a record has stored it.
C20_StoreComesLast ==
  /\ [](op[Caller] = "create" =>
          /\ arg[Caller].stage # "stored" => FileView = pre.files
          /\ pc[Caller] = "idle" => result[Caller].status \in {"raise", "return"}
          /\ (pc[Caller] = "idle" /\ ~AcceptableBody(arg[Caller].body)) =>
               /\ result[Caller].status = "raise"
               /\ arg[Caller].stage = "received"
          /\ (pc[Caller] = "idle" /\ result[Caller].status = "raise") =>
               /\ result[Caller].val.http \in {422, 500}
               /\ arg[Caller].stage # "stored"
               /\ FileView = pre.files
          /\ (pc[Caller] = "idle" /\ result[Caller].status = "return") =>
               /\ arg[Caller].stage = "stored"
               /\ ManifestRecords = Append(pre.records, result[Caller].val)
               /\ pdfs[result[Caller].val.filename] = arg[Caller].pdf_bytes)
  /\ [][(op[Caller] = "create" /\ pc[Caller] # "idle"
           /\ arg'[Caller].stage # arg[Caller].stage) =>
          StageIndex(arg'[Caller].stage) = StageIndex(arg[Caller].stage) + 1]_vars

\* C20's case: the rendering failed, the request was answered with an error
\* and the store, which holds records, is as it was.
C20_Witness ==
  /\ op[Caller] = "create"
  /\ pc[Caller] = "idle"
  /\ result[Caller] = Raised(Http(500, "OSError"))
  /\ arg[Caller].stage = "extracted"
  /\ Len(pre.records) >= 1

====
